---- MODULE Spec2Model ----
(***************************************************************************)
(* Model of homeassistant/components/discovery.py: the discovery           *)
(* dispatcher (setup / new_service_listener / start_discovery), the        *)
(* helpers discover and load_platform, and the subscription helper listen. *)
(*                                                                         *)
(* Python values are modelled as follows.                                  *)
(*  - str-or-None arguments (service, component, platform, hass_config)    *)
(*    are strings; None is the sentinel string None, the config mapping    *)
(*    handed to setup is the sentinel string Config.                       *)
(*  - info / discovered values are tagged records: PyNone, PyDict(ref) (a  *)
(*    reference to the dict object of a call), PyTuple(a, b), PyStr(s).    *)
(*  - an exception is the name of its class in the local exc of the call   *)
(*    it ends.                                                             *)
(*  - a dict object is a function from Keys to a value or Absent.          *)
(***************************************************************************)
EXTENDS Integers, Sequences, FiniteSets, TLC

\* ----------------------------------------------------------------- bounds
MaxCalls == 2
MaxListeners == 1
MaxStarts == 2

\* -------------------------------------------------------------- constants
LOAD_PLATFORM == "load_platform"
SERVICE_WEMO == "belkin_wemo"
SERVICE_NETGEAR == "netgear_router"
ATTR_SERVICE == "service"
ATTR_DISCOVERED == "discovered"

None == "<None>"
Config == "<config>"
Absent == "<absent>"
NoThread == "<free>"

Threads == {"T1", "T2"}

SERVICE_HANDLERS ==
    (SERVICE_NETGEAR :> <<"device_tracker", None>>) @@
    (SERVICE_WEMO :> <<"wemo", None>>) @@
    ("philips_hue" :> <<"light", "hue">>) @@
    ("google_cast" :> <<"media_player", "cast">>) @@
    ("panasonic_viera" :> <<"media_player", "panasonic_viera">>) @@
    ("plex_mediaserver" :> <<"media_player", "plex">>) @@
    ("roku" :> <<"media_player", "roku">>) @@
    ("sonos" :> <<"media_player", "sonos">>) @@
    ("logitech_mediaserver" :> <<"media_player", "squeezebox">>)

\* ---------------------------------------------------------- python values
PyNone == [t |-> "None"]
PyDict(r) == [t |-> "dict", ref |-> r]
PyTuple(a, b) == [t |-> "tuple", a |-> a, b |-> b]
PyStr(s) == [t |-> "str", s |-> s]

Keys == {"host", LOAD_PLATFORM}
EmptyDict == [k \in Keys |-> Absent]
DictSet(m, k, v) == [m EXCEPT ![k] = v]

\* ------------------------------------------------------ inputs enumerated
HostInfo == DictSet(EmptyDict, "host", "10.0.0.5")
StaleInfo == DictSet(HostInfo, LOAD_PLATFORM, "stale")
\* what a caller may pass as info / discovered: nothing, a dict it built, or
\* a value that is no mapping (a str)
InfoInputs == {"none", "stale", "str"}
StrInfo == PyStr("10.0.0.5")
InfoContent(i) == IF i = "stale" THEN StaleInfo ELSE HostInfo
ScanServices == {SERVICE_WEMO, "sonos", "unknown_service"}
ScanInfoInputs == {"host"}
\* discover(hass, service, discovered, component) as other components call it
DiscoverCalls == {<<SERVICE_WEMO, "none", None>>,
                  <<SERVICE_WEMO, "str", "wemo">>}
\* how a bus listener called by fire ends
CallbackOutcomes == {"return", "raise"}
PlatformCalls == {<<"media_player", "sonos">>}
LoaderOutcomes == {"True", "False", "raise"}
ListenInputs == { PyStr(SERVICE_WEMO),
                  PyTuple(SERVICE_NETGEAR, LOAD_PLATFORM \o "." \o "media_player") }

VARIABLES
    lock,          \* threading.Lock of setup: the holding thread or NoThread
    pc,            \* position of each thread
    kind,          \* the function each thread was called into
    loc,           \* the locals of each thread's call
    heap,          \* the dict object of each thread's call, if there is one
    trace,         \* history: component-load calls and bus events of the
                   \* calls not yet returned, call by call, those of one
                   \* call in order
    listeners,     \* listeners registered by listen, in order
    startOnce,     \* one-shot listeners on EVENT_HOMEASSISTANT_START
    startAlways,   \* persistent listeners on EVENT_HOMEASSISTANT_START
    setupDone,     \* setup has returned True
    scans,         \* DiscoveryService objects started
    scanListeners, \* new_service_listener registrations (add_listener)
    starts,        \* EVENT_HOMEASSISTANT_START signals fired after setup
    nCalls         \* calls made so far

vars == <<lock, pc, kind, loc, heap, trace, listeners, startOnce, startAlways,
          setupDone, scans, scanListeners, starts, nCalls>>

busVars == <<startOnce, startAlways, setupDone, scans, scanListeners, starts>>

\* svc, arg, orig, mutated and with are history: the service and the info the
\* caller passed, the content of the caller's dict when passed, whether the
\* caller changed it afterwards, and the threads whose call was in progress
\* together with this one
NoLocals == [service |-> None, svc |-> None, arg |-> PyNone, info |-> PyNone,
             discovered |-> PyNone, component |-> None, platform |-> None,
             hass_config |-> None, raised |-> FALSE, exc |-> None,
             orig |-> EmptyDict, mutated |-> FALSE, with |-> {}]

Init ==
    /\ lock = NoThread
    /\ pc = [t \in Threads |-> "idle"]
    /\ kind = [t \in Threads |-> "none"]
    /\ loc = [t \in Threads |-> NoLocals]
    /\ heap = [t \in Threads |-> EmptyDict]
    /\ trace = <<>>
    /\ listeners = <<>>
    /\ startOnce = 0
    /\ startAlways = 0
    /\ setupDone = FALSE
    /\ scans = 0
    /\ scanListeners = 0
    /\ starts = 0
    /\ nCalls = 0

\* ---------------------------------------------------------------- helpers
Range(f) == {f[i] : i \in DOMAIN f}
Active(t) == pc[t] \notin {"idle", "done"}
\* the threads are interchangeable: a new call runs on the first idle one
ThreadOrder == [t \in Threads |-> IF t = "T1" THEN 1 ELSE 2]
\* the history with entry e added at the end of those of its call
Record(tr, e) ==
    LET before == SelectSeq(tr, LAMBDA x :
                      ThreadOrder[x.call] <= ThreadOrder[e.call])
        after == SelectSeq(tr, LAMBDA x :
                      ThreadOrder[x.call] > ThreadOrder[e.call])
    IN before \o <<e>> \o after

FreeThread(t) ==
    /\ pc[t] = "idle"
    /\ \A u \in Threads : pc[u] = "idle" => ThreadOrder[t] <= ThreadOrder[u]

\* a lookup with a default route for the services the registry does not know
HandlersGet_default(service) ==
    IF service \in DOMAIN SERVICE_HANDLERS
    THEN PyTuple(SERVICE_HANDLERS[service][1], SERVICE_HANDLERS[service][2])
    ELSE PyTuple(service, None)

\* dict.get(key) of SERVICE_HANDLERS: the route as a tuple, or None
HandlersGet(service) ==
    IF service \in DOMAIN SERVICE_HANDLERS
    THEN PyTuple(SERVICE_HANDLERS[service][1], SERVICE_HANDLERS[service][2])
    ELSE PyNone

\* truth value of a python object (None is false, a 2-tuple is true)
Truthy(v) == v.t # "None"

\* where a call continues after the function it was called into has ended:
\* new_service_listener leaves its with-block, a direct call is over
\* a callback that ends without leaving the with-block: the lock stays taken
AfterReturn_noExit(k) == "done"

AfterReturn(k) == IF k = "listener" THEN "exit" ELSE "done"

\* a discover that fires first and loads the component afterwards
DiscoverNext_fireFirst(stage, component) ==
    CASE stage = "enter" -> "fire"
      [] stage = "fire" -> (IF component # None THEN "load" ELSE "return")
      [] stage = "load" -> "return"

\* the statements of discover in order: the component load, if a component
\* is given, then the fire; stage is the statement just finished
DiscoverNext(stage, component) ==
    CASE stage = "enter" -> (IF component # None THEN "load" ELSE "fire")
      [] stage = "load" -> "fire"
      [] stage = "fire" -> "return"

Goto(k, target) == IF target = "return" THEN AfterReturn(k) ELSE target

\* a discover that puts discovered into the data whether given or not
DiscoverData_always(service, discovered) ==
    [service |-> service, discovered |-> discovered]

\* the data dict discover builds
DiscoverData(service, discovered) ==
    IF discovered # PyNone
    THEN [service |-> service, discovered |-> discovered]
    ELSE [service |-> service]

\* the content a value denotes in heap h
Deref(h, v) == IF v.t = "dict" THEN h[v.ref] ELSE v

\* ------------------------------------------------------------------ listen
\* a listen without the isinstance test: tuple(service) of a str is the tuple
\* of its characters
ServiceTuple_iterated(service) ==
    IF service.t = "str"
    THEN (IF service.s = SERVICE_WEMO
          THEN <<"b", "e", "l", "k", "i", "n", "_", "w", "e", "m", "o">>
          ELSE <<service.s>>)
    ELSE <<service.a, service.b>>

\* lines 45-48: a str becomes a one-element tuple, a collection a tuple
ServiceTuple(service) ==
    IF service.t = "str" THEN <<service.s>> ELSE <<service.a, service.b>>

\* a listener that does not look at which service the event is about
DiscoveryEventListener_unfiltered(services, data) ==
    ATTR_SERVICE \in DOMAIN data

\* line 52: the filter of discovery_event_listener
DiscoveryEventListener(services, data) ==
    /\ ATTR_SERVICE \in DOMAIN data
    /\ data[ATTR_SERVICE] \in Range(services)

\* event.data.get(ATTR_DISCOVERED)
DataGetDiscovered(data) ==
    IF ATTR_DISCOVERED \in DOMAIN data THEN data[ATTR_DISCOVERED] ELSE PyNone

\* bus.fire of EVENT_PLATFORM_DISCOVERED: every registered listener runs, in
\* registration order, on the firing thread; the result is the callbacks made
Deliveries(data) ==
    LET hit == SelectSeq([i \in 1..Len(listeners) |-> i],
                  LAMBDA i : DiscoveryEventListener(listeners[i].services, data))
    IN [j \in 1..Len(hit) |->
            [listener |-> hit[j],
             service |-> data[ATTR_SERVICE],
             discovered |-> DataGetDiscovered(data)]]

Listen(service) ==
    /\ Len(listeners) < MaxListeners
    /\ listeners' = Append(listeners, [arg |-> service,
                                        services |-> ServiceTuple(service)])
    /\ UNCHANGED <<lock, pc, kind, loc, heap, trace, busVars, nCalls>>

\* ------------------------------------------------------- setup / lifecycle
\* a setup that registers start_discovery with listen instead of listen_once
Setup_persistent ==
    /\ ~setupDone
    /\ setupDone' = TRUE
    /\ startAlways' = startAlways + 1
    /\ UNCHANGED <<lock, pc, kind, loc, heap, trace, listeners, startOnce,
                   scans, scanListeners, starts, nCalls>>

\* setup, line 136: start_discovery is registered with listen_once
Setup ==
    /\ ~setupDone
    /\ setupDone' = TRUE
    /\ startOnce' = startOnce + 1
    /\ UNCHANGED <<lock, pc, kind, loc, heap, trace, listeners, startAlways,
                   scans, scanListeners, starts, nCalls>>

\* start_discovery, lines 130-134: one DiscoveryService is created, given
\* new_service_listener and started
start_discovery(st) ==
    [scans |-> st.scans + 1, scanListeners |-> st.scanListeners + 1]

RECURSIVE RunStartListeners(_, _)
RunStartListeners(n, st) ==
    IF n = 0 THEN st ELSE RunStartListeners(n - 1, start_discovery(st))

\* the bus fires EVENT_HOMEASSISTANT_START: every listener of the event runs,
\* and the one-shot listeners are removed
StartSignal ==
    /\ setupDone
    /\ starts < MaxStarts
    /\ starts' = starts + 1
    /\ LET st == RunStartListeners(startOnce + startAlways,
                     [scans |-> scans, scanListeners |-> scanListeners])
       IN /\ scans' = st.scans
          /\ scanListeners' = st.scanListeners
    /\ startOnce' = 0
    /\ UNCHANGED <<lock, pc, kind, loc, heap, trace, listeners, startAlways,
                   setupDone, nCalls>>

\* ------------------------------------------------------------------- calls
\* a caller builds the mapping it passes (or passes nothing)
ArgValue(t, i) ==
    IF i = "none" THEN PyNone ELSE IF i = "str" THEN StrInfo ELSE PyDict(t)
ArgDict(i) == IF i \in {"none", "str"} THEN EmptyDict ELSE InfoContent(i)

NewCall(t, k, i) ==
    /\ FreeThread(t)
    /\ nCalls < MaxCalls
    /\ nCalls' = nCalls + 1
    /\ heap' = [heap EXCEPT ![t] = ArgDict(i)]
    /\ kind' = [kind EXCEPT ![t] = k]
    /\ UNCHANGED <<lock, trace, listeners, busVars>>

Locals(t, i) ==
    [NoLocals EXCEPT !.arg = ArgValue(t, i), !.orig = ArgDict(i),
                     !.with = {u \in Threads \ {t} : Active(u)}]

\* the scanner thread calls new_service_listener(service, info)
InvokeListener(t, service, i) ==
    /\ scanListeners > 0
    /\ NewCall(t, "listener", i)
    /\ loc' = [loc EXCEPT ![t] = [Locals(t, i) EXCEPT !.service = service,
                                                      !.svc = service,
                                                      !.info = ArgValue(t, i)]]
    /\ pc' = [pc EXCEPT ![t] = "acquire"]

\* another component calls discover(hass, service, discovered, component)
CallDiscover(t, service, i, component) ==
    /\ NewCall(t, "discover", i)
    /\ loc' = [loc EXCEPT ![t] = [Locals(t, i) EXCEPT
                                     !.service = service,
                                     !.svc = service,
                                     !.discovered = ArgValue(t, i),
                                     !.component = component]]
    /\ pc' = [pc EXCEPT ![t] = Goto("discover", DiscoverNext("enter", component))]

\* another component calls load_platform(hass, component, platform, info)
CallLoadPlatform(t, cp, i) ==
    /\ NewCall(t, "load_platform", i)
    /\ loc' = [loc EXCEPT ![t] = [Locals(t, i) EXCEPT
                                     !.info = ArgValue(t, i),
                                     !.component = cp[1],
                                     !.platform = cp[2]]]
    /\ pc' = [pc EXCEPT ![t] = "load_platform"]

\* ---------------------------------------------------- new_service_listener
\* a callback that goes on without waiting for the lock
Acquire_nowait(t) ==
    /\ pc[t] = "acquire"
    /\ lock' = t
    /\ pc' = [pc EXCEPT ![t] = "lookup"]
    /\ UNCHANGED <<kind, loc, heap, trace, listeners, busVars, nCalls>>

\* line 113: with lock
Acquire(t) ==
    /\ pc[t] = "acquire"
    /\ lock = NoThread
    /\ lock' = t
    /\ pc' = [pc EXCEPT ![t] = "lookup"]
    /\ UNCHANGED <<kind, loc, heap, trace, listeners, busVars, nCalls>>

\* lines 116-127: info is rebound to the registry's route; an unknown service
\* returns; a route without platform calls discover(hass, service, info,
\* config), one with a platform load_platform(hass, component, platform,
\* info, config)
LookupDecision(t) ==
    /\ pc[t] = "lookup"
    /\ LET info == HandlersGet(loc[t].service)
       IN IF ~Truthy(info)
          THEN /\ loc' = [loc EXCEPT ![t].info = info]
               /\ pc' = [pc EXCEPT ![t] = "exit"]
          ELSE IF info.b = None
          THEN /\ loc' = [loc EXCEPT ![t].info = info,
                                     ![t].discovered = info,
                                     ![t].component = Config,
                                     ![t].hass_config = None]
               /\ pc' = [pc EXCEPT ![t] =
                            Goto("listener", DiscoverNext("enter", Config))]
          ELSE /\ loc' = [loc EXCEPT ![t].info = info,
                                     ![t].component = info.a,
                                     ![t].platform = info.b,
                                     ![t].hass_config = Config]
               /\ pc' = [pc EXCEPT ![t] = "load_platform"]
    /\ UNCHANGED <<kind, heap, trace, listeners, busVars, nCalls>>

\* a lookup that ends the critical section before the dispatch
Lookup_released(t) == LookupDecision(t) /\ lock' = NoThread

\* the whole of lines 114-127 is inside the with-block: the lock stays held
Lookup(t) == LookupDecision(t) /\ lock' = lock

\* a callback that releases the lock at the end of the block only (acquire
\* and release calls without try/finally): an exception keeps it locked
Release_leak(t) ==
    /\ pc[t] = "exit"
    /\ lock' = IF loc[t].raised THEN lock ELSE NoThread
    /\ pc' = [pc EXCEPT ![t] = "done"]
    /\ UNCHANGED <<kind, loc, heap, trace, listeners, busVars, nCalls>>

\* the with-block is left, by return or by exception: the lock is released
Release(t) ==
    /\ pc[t] = "exit"
    /\ lock' = NoThread
    /\ pc' = [pc EXCEPT ![t] = "done"]
    /\ UNCHANGED <<kind, loc, heap, trace, listeners, busVars, nCalls>>

\* ----------------------------------------------------------- load_platform
\* a load_platform that keeps a load_platform key the caller supplied
\* (info.setdefault(LOAD_PLATFORM, platform))
LoadPlatformInfo_setdefault(t, d, info, platform) ==
    IF info = PyNone
    THEN [raised |-> FALSE, info |-> PyDict(t),
          dict |-> DictSet(EmptyDict, LOAD_PLATFORM, platform)]
    ELSE IF info.t = "dict"
    THEN [raised |-> FALSE, info |-> info,
          dict |-> IF d[LOAD_PLATFORM] = Absent
                   THEN DictSet(d, LOAD_PLATFORM, platform) ELSE d]
    ELSE [raised |-> TRUE, info |-> info, dict |-> d]

\* a load_platform that replaces an info that is no dict by a new dict
LoadPlatformInfo_coerce(t, d, info, platform) ==
    IF info.t = "dict"
    THEN [raised |-> FALSE, info |-> info,
          dict |-> DictSet(d, LOAD_PLATFORM, platform)]
    ELSE [raised |-> FALSE, info |-> PyDict(t),
          dict |-> DictSet(EmptyDict, LOAD_PLATFORM, platform)]

\* lines 91-94, on the dict object d of the call: a missing info becomes a new
\* dict {LOAD_PLATFORM: platform}; otherwise info[LOAD_PLATFORM] = platform is
\* executed on the object passed, which raises TypeError unless it is a dict
LoadPlatformInfo(t, d, info, platform) ==
    IF info = PyNone
    THEN [raised |-> FALSE, info |-> PyDict(t),
          dict |-> DictSet(EmptyDict, LOAD_PLATFORM, platform)]
    ELSE IF info.t = "dict"
    THEN [raised |-> FALSE, info |-> info,
          dict |-> DictSet(d, LOAD_PLATFORM, platform)]
    ELSE [raised |-> TRUE, info |-> info, dict |-> d]

\* lines 91-97: the info is built, then discover(hass, LOAD_PLATFORM + '.' +
\* component, info, component, hass_config) is called
LoadPlatform(t) ==
    /\ pc[t] = "load_platform"
    /\ LET r == LoadPlatformInfo(t, heap[t], loc[t].info, loc[t].platform)
       IN /\ heap' = [heap EXCEPT ![t] = r.dict]
          /\ IF r.raised
             THEN /\ loc' = [loc EXCEPT ![t].raised = TRUE,
                                        ![t].exc = "TypeError"]
                  /\ pc' = [pc EXCEPT ![t] = AfterReturn(kind[t])]
             ELSE /\ loc' = [loc EXCEPT
                        ![t].info = r.info,
                        ![t].service = LOAD_PLATFORM \o "." \o loc[t].component,
                        ![t].discovered = r.info]
                  /\ pc' = [pc EXCEPT ![t] =
                        Goto(kind[t], DiscoverNext("enter", loc[t].component))]
    /\ UNCHANGED <<lock, kind, trace, listeners, busVars, nCalls>>

\* ---------------------------------------------------------------- discover
\* line 61: bootstrap.setup_component(hass, component, hass_config) is called
\* and ends with outcome; if raises, the exception ends discover, otherwise
\* discover goes on at target
LoaderStep(t, outcome, raises, target) ==
    /\ pc[t] = "load"
    /\ trace' = Record(trace, [op |-> "load", call |-> t,
                               component |-> loc[t].component,
                               config |-> loc[t].hass_config,
                               outcome |-> outcome])
    /\ IF raises
       THEN /\ loc' = [loc EXCEPT ![t].raised = TRUE,
                                  ![t].exc = "LoaderError"]
            /\ pc' = [pc EXCEPT ![t] = AfterReturn(kind[t])]
       ELSE /\ loc' = loc
            /\ pc' = [pc EXCEPT ![t] = target]
    /\ UNCHANGED <<lock, kind, heap, listeners, busVars, nCalls>>

AfterLoad(t) == Goto(kind[t], DiscoverNext("load", loc[t].component))

\* a discover that catches the loader's exception and goes on to the fire
SetupComponent_caught(t, outcome) ==
    LoaderStep(t, outcome, FALSE, AfterLoad(t))

\* a discover that calls the loader again when it has raised
SetupComponent_retry(t, outcome) ==
    LoaderStep(t, outcome, FALSE,
               IF outcome = "raise" THEN "load" ELSE AfterLoad(t))

\* a discover that returns without firing when the loader returns False
SetupComponent_checked(t, outcome) ==
    LoaderStep(t, outcome, outcome = "raise",
               IF outcome = "False" THEN AfterReturn(kind[t]) ELSE AfterLoad(t))

\* lines 60-61: the result of the loader is not looked at, its exception is
\* not caught
SetupComponent(t, outcome) ==
    LoaderStep(t, outcome, outcome = "raise", AfterLoad(t))

\* lines 63-70: the data is built and fired; the listeners run before fire
\* returns, and an exception of a listener's callback (here of the last one
\* called) comes out of fire and of discover.  snap (the content of
\* discovered when fired) and nl (the number of listeners registered when
\* fired) are history
Publish(t, outcome) ==
    /\ pc[t] = "fire"
    /\ LET data == DiscoverData(loc[t].service, loc[t].discovered)
       IN /\ outcome = "raise" => Deliveries(data) # <<>>
          /\ trace' = Record(trace, [op |-> "fire", call |-> t, data |-> data,
                                     callbacks |-> Deliveries(data),
                                     snap |-> Deref(heap, loc[t].discovered),
                                     nl |-> Len(listeners)])
    /\ IF outcome = "raise"
       THEN /\ loc' = [loc EXCEPT ![t].raised = TRUE,
                                  ![t].exc = "ListenerError"]
            /\ pc' = [pc EXCEPT ![t] = AfterReturn(kind[t])]
       ELSE /\ loc' = loc
            /\ pc' = [pc EXCEPT ![t] =
                        Goto(kind[t], DiscoverNext("fire", loc[t].component))]
    /\ UNCHANGED <<lock, kind, heap, listeners, busVars, nCalls>>

\* a discover that does not fire an event equal to one already published
Fire_dedup(t, outcome) ==
    IF \E i \in DOMAIN trace :
          /\ trace[i].op = "fire"
          /\ trace[i].data[ATTR_SERVICE] = loc[t].service
          /\ trace[i].snap = Deref(heap, loc[t].discovered)
    THEN /\ pc[t] = "fire"
         /\ outcome = "return"
         /\ pc' = [pc EXCEPT ![t] =
                      Goto(kind[t], DiscoverNext("fire", loc[t].component))]
         /\ UNCHANGED <<lock, kind, loc, heap, trace, listeners, busVars,
                        nCalls>>
    ELSE Publish(t, outcome)

\* line 70: every call of discover fires
Fire(t, outcome) == Publish(t, outcome)

\* ------------------------------------------------------------- environment
\* the caller of discover or load_platform changes the mapping it passed,
\* after the call
MutateCallerInfo(t) ==
    /\ pc[t] = "done"
    /\ kind[t] \in {"discover", "load_platform"}
    /\ loc[t].arg.t = "dict"
    /\ ~loc[t].mutated
    /\ heap' = [heap EXCEPT ![t] = DictSet(@, "host", "changed")]
    /\ loc' = [loc EXCEPT ![t].mutated = TRUE]
    /\ UNCHANGED <<lock, pc, kind, trace, listeners, busVars, nCalls>>

\* the caller goes on and its thread can make another call; the history of
\* the finished call is dropped
Return(t) ==
    /\ pc[t] = "done"
    /\ pc' = [pc EXCEPT ![t] = "idle"]
    /\ kind' = [kind EXCEPT ![t] = "none"]
    /\ loc' = [u \in Threads |->
                  IF u = t THEN NoLocals
                  ELSE [loc[u] EXCEPT !.with = loc[u].with \ {t}]]
    /\ heap' = [heap EXCEPT ![t] = EmptyDict]
    /\ trace' = SelectSeq(trace, LAMBDA e : e.call # t)
    /\ UNCHANGED <<lock, listeners, busVars, nCalls>>

\* ----------------------------------------------------------- specification
Next ==
    \/ Setup
    \/ StartSignal
    \/ \E s \in ListenInputs : Listen(s)
    \/ \E t \in Threads, s \in ScanServices, i \in ScanInfoInputs :
          InvokeListener(t, s, i)
    \/ \E t \in Threads, d \in DiscoverCalls : CallDiscover(t, d[1], d[2], d[3])
    \/ \E t \in Threads, cp \in PlatformCalls, i \in InfoInputs :
          CallLoadPlatform(t, cp, i)
    \/ \E t \in Threads : Acquire(t)
    \/ \E t \in Threads : Lookup(t)
    \/ \E t \in Threads : LoadPlatform(t)
    \/ \E t \in Threads, o \in LoaderOutcomes : SetupComponent(t, o)
    \/ \E t \in Threads, o \in CallbackOutcomes : Fire(t, o)
    \/ \E t \in Threads : Release(t)
    \/ \E t \in Threads : MutateCallerInfo(t)
    \/ \E t \in Threads : Return(t)

Spec == Init /\ [][Next]_vars

\* Fair scheduling: a thread inside a call goes on (the statements of the
\* body, the Component Loader and the bus listeners return, by a value or by
\* an exception), and a thread waiting for the lock gets it if the lock is
\* free again and again.
Fairness ==
    \A t \in Threads :
        /\ SF_vars(Acquire(t))
        /\ WF_vars(Lookup(t))
        /\ WF_vars(LoadPlatform(t))
        /\ WF_vars(\E o \in LoaderOutcomes : SetupComponent(t, o))
        /\ WF_vars(\E o \in CallbackOutcomes : Fire(t, o))
        /\ WF_vars(Release(t))

\* the steps of the dispatcher: setup, the start signal, the subscriptions
\* and the new_service_listener calls of the scan threads; direct calls of
\* discover and load_platform take no lock and are left to Spec
LiveNext ==
    \/ Setup
    \/ StartSignal
    \/ \E s \in ListenInputs : Listen(s)
    \/ \E t \in Threads, s \in ScanServices, i \in ScanInfoInputs :
          InvokeListener(t, s, i)
    \/ \E t \in Threads : Acquire(t)
    \/ \E t \in Threads : Lookup(t)
    \/ \E t \in Threads : LoadPlatform(t)
    \/ \E t \in Threads, o \in LoaderOutcomes : SetupComponent(t, o)
    \/ \E t \in Threads, o \in CallbackOutcomes : Fire(t, o)
    \/ \E t \in Threads : Release(t)
    \/ \E t \in Threads : Return(t)

FairSpec == Init /\ [][LiveNext]_vars /\ Fairness

\* ------------------------------------------------------------- observation
\* the events published and the component loads made by the call on thread t
Events(t) == SelectSeq(trace, LAMBDA e : e.op = "fire" /\ e.call = t)
Loads(t) == SelectSeq(trace, LAMBDA e : e.op = "load" /\ e.call = t)
LoaderRaised(t) == \E i \in DOMAIN trace :
    trace[i].op = "load" /\ trace[i].call = t /\ trace[i].outcome = "raise"
Finished(t, k) == pc[t] = "done" /\ kind[t] = k
Registered(s) == s \in DOMAIN SERVICE_HANDLERS
Route(s) == SERVICE_HANDLERS[s]
Concurrent(t, u) == u \in loc[t].with \/ t \in loc[u].with

\* C1: a finished new_service_listener call for a registered service whose
\* route has no platform (the loader not having raised) has published exactly
\* one event, with service the registry key and discovered the info the
\* scanner passed, and has made at most one component-load call, for the
\* component the registry maps the service to.
C1_DirectDispatch ==
    \A t \in Threads :
        (/\ Finished(t, "listener")
         /\ Registered(loc[t].svc)
         /\ Route(loc[t].svc)[2] = None
         /\ ~LoaderRaised(t))
        => /\ Len(Events(t)) = 1
           /\ Events(t)[1].data =
                 [service |-> loc[t].svc, discovered |-> loc[t].arg]
           /\ Events(t)[1].snap = loc[t].orig
           /\ Len(Loads(t)) <= 1
           /\ \A i \in DOMAIN Loads(t) :
                 Loads(t)[i].component = Route(loc[t].svc)[1]

\* C2: a finished new_service_listener call for a service the registry maps
\* to (component, platform) with a platform (the loader not having raised)
\* has published exactly one event, with service "load_platform." + component
\* and discovered.load_platform = platform, and every other key of the
\* scanner's info is in discovered with its original value.
C2_PlatformDispatch ==
    \A t \in Threads :
        (/\ Finished(t, "listener")
         /\ Registered(loc[t].svc)
         /\ Route(loc[t].svc)[2] # None
         /\ ~LoaderRaised(t))
        => /\ Len(Events(t)) = 1
           /\ Events(t)[1].data[ATTR_SERVICE] =
                 LOAD_PLATFORM \o "." \o Route(loc[t].svc)[1]
           /\ DataGetDiscovered(Events(t)[1].data).t = "dict"
           /\ Events(t)[1].snap[LOAD_PLATFORM] = Route(loc[t].svc)[2]
           /\ \A k \in Keys \ {LOAD_PLATFORM} :
                 Events(t)[1].snap[k] = loc[t].orig[k]

\* C3: a new_service_listener call for a service that is no key of the
\* registry publishes no event and makes no component-load call at any point,
\* and ends without an exception.
C3_UnknownIgnored ==
    \A t \in Threads :
        (kind[t] = "listener" /\ ~Registered(loc[t].svc))
        => /\ Events(t) = <<>>
           /\ Loads(t) = <<>>
           /\ ~loc[t].raised
           /\ pc[t] \in {"acquire", "lookup", "exit", "done"}

C3_Witness ==
    \E t \in Threads :
        Finished(t, "listener") /\ ~Registered(loc[t].svc) /\ lock = NoThread

\* C4: two new_service_listener calls for two different registered services
\* that were in progress together have, once both are finished (the loader
\* not having raised), published exactly one event each.
C4_ConcurrentEachOneEvent ==
    \A t, u \in Threads :
        (/\ t # u
         /\ Finished(t, "listener") /\ Finished(u, "listener")
         /\ Concurrent(t, u)
         /\ Registered(loc[t].svc) /\ Registered(loc[u].svc)
         /\ loc[t].svc # loc[u].svc
         /\ ~LoaderRaised(t) /\ ~LoaderRaised(u))
        => /\ Len(Events(t)) = 1
           /\ Len(Events(u)) = 1
           /\ Len(SelectSeq(trace, LAMBDA e : e.op = "fire")) = 2

InBody(t) ==
    kind[t] = "listener"
    /\ pc[t] \in {"lookup", "load_platform", "load", "fire", "exit"}

\* C5 (as stated): a callback that is about to call the Component Loader or
\* to publish no longer holds the lock.
C5_LockReleasedBeforeDispatch ==
    \A t \in Threads :
        (kind[t] = "listener" /\ pc[t] \in {"load", "fire"}) => lock # t

\* C5 (amended): the callback holds the lock for its whole body, from the
\* registry lookup through load_platform, the component-load call and the
\* publish until it leaves the with-block; in the meantime no other callback
\* is past the acquisition of the lock.
C5_LockHeldThroughDispatch ==
    \A t \in Threads :
        InBody(t) => /\ lock = t
                     /\ \A u \in Threads \ {t} : ~InBody(u)

C5_Witness ==
    \E t, u \in Threads :
        /\ t # u
        /\ kind[t] = "listener" /\ pc[t] = "fire" /\ lock = t
        /\ Loads(t) # <<>>
        /\ kind[u] = "listener" /\ pc[u] = "acquire"

\* C6: after load_platform(component, platform, info) the mapping the caller
\* passed is as the caller built it, as long as the caller does not change
\* it, and the discovered payload of the event published is as it was when
\* published, whatever the caller does to its mapping.
C6_InfoNotAliased ==
    \A t \in Threads :
        (Finished(t, "load_platform") /\ loc[t].arg.t = "dict")
        => /\ ~loc[t].mutated => heap[t] = loc[t].orig
           /\ \A i \in DOMAIN Events(t) :
                 Deref(heap, DataGetDiscovered(Events(t)[i].data))
                    = Events(t)[i].snap

\* C7: an event of a discover or load_platform call that was given a
\* component comes after a completed component-load call of the same call
\* for that component, and no component-load call of a call comes after an
\* event of that call.
C7_LoadBeforeEvent ==
    \A i \in DOMAIN trace :
        trace[i].op = "fire" =>
            /\ loc[trace[i].call].component # None
                  => \E j \in 1..(i - 1) :
                        /\ trace[j].op = "load"
                        /\ trace[j].call = trace[i].call
                        /\ trace[j].component = loc[trace[i].call].component
                        /\ trace[j].outcome # "raise"
            /\ \A j \in (i + 1)..Len(trace) :
                  trace[j].call = trace[i].call => trace[j].op # "load"

C7_Witness ==
    \E t, u \in Threads :
        /\ Finished(t, "load_platform") /\ Len(Loads(t)) = 1 /\ Len(Events(t)) = 1
        /\ Finished(u, "discover") /\ Len(Loads(u)) = 1 /\ Len(Events(u)) = 1

\* C8: after setup the scan is started, and new_service_listener registered,
\* exactly once, by the first application-start signal; further signals
\* start nothing.
C8_ScanStartedOnce ==
    /\ scans <= 1
    /\ scanListeners = scans
    /\ starts = 0 => scans = 0
    /\ starts >= 1 => scans = 1
    /\ setupDone => startOnce + scans = 1
    /\ startAlways = 0

C8_Witness == starts >= 2 /\ scans = 1 /\ scanListeners = 1 /\ startOnce = 0

\* C9: a listener registered by listen(S, cb) with a collection S is called
\* exactly once, with the event's service and discovered, for every event
\* published after the registration whose service is in S, and not at all
\* for any other event.
CallbacksOf(e, l) == SelectSeq(e.callbacks, LAMBDA c : c.listener = l)

C9_ListenFilter ==
    \A i \in DOMAIN trace : trace[i].op = "fire" =>
        \A l \in DOMAIN listeners : listeners[l].arg.t = "tuple" =>
            IF l <= trace[i].nl
               /\ trace[i].data[ATTR_SERVICE]
                     \in {listeners[l].arg.a, listeners[l].arg.b}
            THEN CallbacksOf(trace[i], l) =
                    << [listener |-> l,
                        service |-> trace[i].data[ATTR_SERVICE],
                        discovered |-> DataGetDiscovered(trace[i].data)] >>
            ELSE CallbacksOf(trace[i], l) = <<>>

C9_Witness ==
    \E i, j \in DOMAIN trace :
        /\ trace[i].op = "fire" /\ trace[j].op = "fire"
        /\ Len(listeners) >= 1 /\ listeners[1].arg.t = "tuple"
        /\ trace[i].nl >= 1 /\ trace[j].nl >= 1
        /\ Len(CallbacksOf(trace[i], 1)) = 1
        /\ Len(CallbacksOf(trace[j], 1)) = 0

\* C10: the event of load_platform called without info has as discovered
\* exactly {load_platform: platform}; the event of load_platform called with
\* an info that has a load_platform key has discovered.load_platform =
\* platform.
C10_LoadPlatformKey ==
    \A t \in Threads : kind[t] = "load_platform" =>
        \A i \in DOMAIN Events(t) :
            /\ DataGetDiscovered(Events(t)[i].data).t = "dict"
            /\ loc[t].arg = PyNone
                  => Events(t)[i].snap =
                        [k \in Keys |-> IF k = LOAD_PLATFORM
                                        THEN loc[t].platform ELSE Absent]
            /\ (loc[t].arg.t = "dict" /\ loc[t].orig[LOAD_PLATFORM] # Absent)
                  => Events(t)[i].snap[LOAD_PLATFORM] = loc[t].platform

C10_Witness ==
    \E t, u \in Threads :
        /\ Finished(t, "load_platform") /\ loc[t].arg = PyNone
        /\ Len(Events(t)) = 1
        /\ Finished(u, "load_platform") /\ loc[u].arg.t = "dict"
        /\ loc[u].orig[LOAD_PLATFORM] = "stale"
        /\ Len(Events(u)) = 1

\* C11: a finished load_platform call that ended without an exception has
\* published exactly one event, with service "load_platform." + component;
\* two such calls with identical arguments have published two events.
SameArguments(t, u) ==
    /\ loc[t].component = loc[u].component
    /\ loc[t].platform = loc[u].platform
    /\ loc[t].arg.t = loc[u].arg.t
    /\ loc[t].orig = loc[u].orig

FiredBy(T) == SelectSeq(trace, LAMBDA e : e.op = "fire" /\ e.call \in T)

C11_OneEventPerCall ==
    /\ \A t \in Threads :
          (Finished(t, "load_platform") /\ ~loc[t].raised)
          => /\ Len(Events(t)) = 1
             /\ Events(t)[1].data[ATTR_SERVICE] =
                   LOAD_PLATFORM \o "." \o loc[t].component
    /\ \A t, u \in Threads :
          (/\ t # u
           /\ Finished(t, "load_platform") /\ ~loc[t].raised
           /\ Finished(u, "load_platform") /\ ~loc[u].raised
           /\ SameArguments(t, u))
          => Len(FiredBy({t, u})) = 2

C11_Witness ==
    \E t, u \in Threads :
        /\ t # u
        /\ Finished(t, "load_platform") /\ ~loc[t].raised
        /\ Finished(u, "load_platform") /\ ~loc[u].raised
        /\ SameArguments(t, u)
        /\ loc[t].arg = PyNone
        /\ Len(FiredBy({t, u})) = 2
        /\ FiredBy({t, u})[1].snap = FiredBy({t, u})[2].snap

\* C12: when the Component Loader raises in a call, the loader has been
\* called exactly once in that call, the call ends there, and the loader's
\* exception is the one the caller gets.
C12_LoaderErrorPropagates ==
    \A t \in Threads :
        LoaderRaised(t)
        => /\ Len(Loads(t)) = 1
           /\ pc[t] \in {"exit", "done"}
           /\ loc[t].raised
           /\ loc[t].exc = "LoaderError"

C12_Witness ==
    \E t, u \in Threads :
        /\ Finished(t, "listener") /\ LoaderRaised(t)
        /\ loc[t].exc = "LoaderError"
        /\ Finished(u, "load_platform") /\ LoaderRaised(u)
        /\ loc[u].exc = "LoaderError"

NonMapping(v) == v.t \notin {"None", "dict"}

\* C13 (as stated): a discover or load_platform call given a discovered /
\* info that is neither a mapping nor absent publishes no event and ends
\* with a TypeError.
C13_NonMappingRejected ==
    \A t \in Threads :
        (kind[t] \in {"discover", "load_platform"} /\ NonMapping(loc[t].arg))
        => /\ Events(t) = <<>>
           /\ pc[t] = "done" => loc[t].exc = "TypeError"

\* C13 (amended): load_platform given an info that is no mapping and does
\* not take item assignment (a str) ends with a TypeError before any
\* component load and any event; discover does not check discovered, and a
\* call given a str publishes the str unchanged as the event's discovered.
C13_NonMappingHandling ==
    \A t \in Threads : NonMapping(loc[t].arg) =>
        /\ kind[t] = "load_platform"
              => /\ Events(t) = <<>>
                 /\ Loads(t) = <<>>
                 /\ pc[t] = "done"
                       => loc[t].raised /\ loc[t].exc = "TypeError"
        /\ (Finished(t, "discover") /\ ~loc[t].raised)
              => /\ Len(Events(t)) = 1
                 /\ DataGetDiscovered(Events(t)[1].data) = loc[t].arg

C13_Witness ==
    \E t, u \in Threads :
        /\ Finished(t, "load_platform") /\ loc[t].arg = StrInfo
        /\ loc[t].exc = "TypeError"
        /\ Finished(u, "discover") /\ loc[u].arg = StrInfo
        /\ Len(Events(u)) = 1

C15_MutualExclusion ==
    \A t, u \in Threads : t # u => ~(InBody(t) /\ InBody(u))

C15_Witness ==
    \E t, u \in Threads :
        /\ t # u
        /\ kind[t] = "listener" /\ pc[t] = "lookup" /\ lock = t
        /\ kind[u] = "listener" /\ pc[u] = "acquire"

\* C16 as stated: every event published by a call has the service field,
\* and has the discovered field exactly when the call that published it
\* (discover, load_platform or new_service_listener) was given a discovered
\* or info other than None.
C16_DiscoveredIffSupplied ==
    \A i \in DOMAIN trace : trace[i].op = "fire" =>
        LET t == trace[i].call
            data == trace[i].data
        IN /\ ATTR_SERVICE \in DOMAIN data
           /\ (ATTR_DISCOVERED \in DOMAIN data) <=> (loc[t].arg # PyNone)

\* C16: every event published by a call has the service field, with the
\* service discover was given, and has the discovered field exactly when
\* discover itself was given a discovered other than None, with that value;
\* the event of a discover call made without discovered has the service
\* field only, and the event of a load_platform call has the discovered
\* field also when the call was made without info.
C16_EventFields ==
    \A i \in DOMAIN trace : trace[i].op = "fire" =>
        LET t == trace[i].call
            data == trace[i].data
        IN /\ ATTR_SERVICE \in DOMAIN data
           /\ data[ATTR_SERVICE] = loc[t].service
           /\ (ATTR_DISCOVERED \in DOMAIN data) <=> (loc[t].discovered # PyNone)
           /\ ATTR_DISCOVERED \in DOMAIN data
                 => data[ATTR_DISCOVERED] = loc[t].discovered
           /\ (kind[t] = "discover" /\ loc[t].arg = PyNone)
                 => DOMAIN data = {ATTR_SERVICE}
           /\ kind[t] = "load_platform"
                 => DOMAIN data = {ATTR_SERVICE, ATTR_DISCOVERED}

C16_Witness ==
    \E t, u \in Threads :
        /\ Finished(t, "discover") /\ loc[t].arg = PyNone
        /\ Len(Events(t)) = 1
        /\ DOMAIN Events(t)[1].data = {ATTR_SERVICE}
        /\ Finished(u, "load_platform") /\ loc[u].arg = PyNone
        /\ Len(Events(u)) = 1
        /\ DOMAIN Events(u)[1].data = {ATTR_SERVICE, ATTR_DISCOVERED}

\* C17: a new_service_listener call that has ended, by an exception or not,
\* does not hold the lock, and the lock is free whenever no call is inside
\* the with-block.
C17_LockFreedOnException ==
    /\ \A t \in Threads : Finished(t, "listener") => lock # t
    /\ (\A t \in Threads : ~InBody(t)) => lock = NoThread

C17_Witness ==
    \E t, u \in Threads :
        /\ Finished(t, "listener") /\ loc[t].exc = "ListenerError"
        /\ ~Concurrent(t, u)
        /\ kind[u] = "listener" /\ pc[u] = "lookup" /\ lock = u

\* C18: a finished discover or load_platform call whose Component Loader call
\* returned, True or False, has published exactly one event, the one built
\* from the service and the discovered of the call whatever the loader
\* returned; of two such calls with the same arguments, one with True and one
\* with False, the events are equal.
C18_LoaderResultIgnored ==
    /\ \A t \in Threads :
          (/\ kind[t] \in {"discover", "load_platform"} /\ pc[t] = "done"
           /\ Len(Loads(t)) = 1
           /\ Loads(t)[1].outcome \in {"True", "False"})
          => /\ Len(Events(t)) = 1
             /\ Events(t)[1].data =
                   DiscoverData(loc[t].service, loc[t].discovered)
    /\ \A t, u \in Threads :
          (/\ Finished(t, "load_platform") /\ Finished(u, "load_platform")
           /\ SameArguments(t, u)
           /\ Len(Loads(t)) = 1 /\ Loads(t)[1].outcome = "False"
           /\ Len(Loads(u)) = 1 /\ Loads(u)[1].outcome = "True")
          => /\ Len(Events(t)) = 1 /\ Len(Events(u)) = 1
             /\ Events(t)[1].data[ATTR_SERVICE] =
                   Events(u)[1].data[ATTR_SERVICE]
             /\ Events(t)[1].snap = Events(u)[1].snap

C18_Witness ==
    \E t, u \in Threads :
        /\ Finished(t, "load_platform") /\ Finished(u, "load_platform")
        /\ SameArguments(t, u)
        /\ Len(Loads(t)) = 1 /\ Loads(t)[1].outcome = "False"
        /\ Len(Loads(u)) = 1 /\ Loads(u)[1].outcome = "True"
        /\ Len(Events(t)) = 1 /\ Len(Events(u)) = 1

\* C19: a call in which the Component Loader has raised has published no
\* event, and is at its end: the published events are those of before the
\* call.
C19_NoEventAfterLoaderError ==
    \A t \in Threads :
        LoaderRaised(t) => /\ Events(t) = <<>>
                           /\ pc[t] \notin {"load", "fire"}

C19_Witness ==
    \E t, u \in Threads :
        /\ Finished(t, "discover") /\ LoaderRaised(t) /\ Events(t) = <<>>
        /\ Finished(u, "discover") /\ ~LoaderRaised(u)
        /\ loc[t].service = loc[u].service
        /\ Len(Events(u)) = 1
        /\ FiredBy(Threads) = Events(u)

\* C20: under fair scheduling, a new_service_listener call that has been
\* invoked and waits for the lock eventually holds it, and eventually has
\* ended with the lock released.
C20_CallbackTerminates ==
    \A t \in Threads :
        /\ (kind[t] = "listener" /\ pc[t] = "acquire") ~> (lock = t)
        /\ (kind[t] = "listener" /\ pc[t] = "acquire")
              ~> (pc[t] = "done" /\ lock # t)

C20_Witness ==
    \E t, u \in Threads :
        /\ kind[t] = "listener" /\ pc[t] = "acquire"
        /\ kind[u] = "listener" /\ pc[u] = "load" /\ lock = u
        /\ loc[u].with = {t}

====
